---- MODULE Spec2Model ----
(***************************************************************************)
(* Inventory and publish-quota engine of the poster shop.                  *)
(*                                                                         *)
(* The store is PostgreSQL reached through drizzle.  db.transaction runs   *)
(* at the default READ COMMITTED level: a SELECT inside a transaction sees *)
(* the latest committed row and takes no lock, an UPDATE takes the row     *)
(* lock until COMMIT or ROLLBACK and waits while another transaction holds *)
(* it.  A statement issued on `db` (not on `tx`) runs on another pooled    *)
(* connection and commits on its own.                                      *)
(***************************************************************************)
EXTENDS Naturals, Integers, Sequences, FiniteSets, TLC

\* ---------------------------------------------------------------- bounds
MaxSupply == 2
NumBuyers == 4
MaxFaults == 1
MaxHist == 5
NumPublishers == 2
NumReaders == 2
NumRequests == 2
MaxTime == 2
MaxFailures == 4
NumCalls == 2
NumCreditOps == 2
MaxCreditCalls == 3
MaxAdd == 2
MaxLogins == 11

\* ------------------------------------------------------ program constants
DefaultSupply == 10
FreeQuota == 2
\* 29.95 CHF, in centimes
MinPrice == 2995
MaxRetries == 3
\* getGenerationCreditsByEmail caches for 60 seconds: two units of the clock
CreditsTtl == 2
\* MAX_FAILED_ATTEMPTS
MaxFailedAttempts == 5
\* LOCKOUT_DURATION_MS, 10 minutes, in units of the clock
LockoutDuration == 20
\* MAX_LOGIN_ATTEMPTS per window
MaxLoginAttempts == 10
\* RATE_LIMIT_WINDOW_MS, 15 minutes, in units of the clock
RateLimitWindow == 30
\* new Pool({ max: 10 })
PoolMax == 10
FailureThreshold == 3
\* 30000 ms: one unit of the clock
CheckInterval == 1
\* getGeneratedImageById caches for 60 seconds: two units of the clock
ImageTtl == 2

\* ------------------------------------------------------------ identities
Images == {"a1", "a2", "a3"}
NoImage == "none"
Users == {"u1", "u2"}
Buyers == 1..NumBuyers
NoReq == <<"none", 0>>
BuyerReq(p) == <<"buyer", p>>
Publishers == 1..NumPublishers
PublisherReq(q) == <<"publisher", q>>
Editors == {1}

Owner(img) == "u1"

VARIABLES
    generatedImages,   \* table generated_images: one row per image id
    posterPurchases,   \* table poster_purchases, in insertion order
    orders,            \* table orders (fulfilment), as a set of rows
    users,             \* table users: postersForSale, userType, subscriptionStatus
    rowLock,           \* image id -> request holding the row lock in an open tx
    userLock,          \* user email -> request holding the row lock in an open tx
    buyer,             \* POST /purchase-poster requests, one per buyer
    publisher,         \* PATCH /images/:id/public requests
    editor,            \* PATCH /admin/images/:id/edition requests
    commits,           \* history: purchase transactions in commit order
    faults,            \* history: number of injected infrastructure failures
    counted,           \* history: image -> published by a seller who was not exempt
    hist,              \* history: completed publish requests of the sequential scenario
    queryCache,        \* the NodeCache: key -> [value, expires], present keys only
    reader,            \* cachedQuery calls in progress
    purchaseInvalidations, \* history: invalidateCache calls made by purchase requests
    now,               \* the clock, in units of 30 seconds
    databaseHealthy,   \* db-health.ts module state
    consecutiveFailures,
    lastCheckTime,
    probing,           \* checkDatabaseHealth calls whose SELECT 1 is outstanding
    request,           \* requests passing databaseHealthMiddleware
    probeLog,          \* history: outcomes of the latest completed probes
    call,              \* an executeWithRetry call
    leased,            \* the pool: withConnection call -> clients it has checked out
    conn,              \* withConnection calls
    miss,              \* a cached read that missed: cachedQuery around a storage method
    paidCredits,       \* table generation_credits: paidCredits of the one customer
    creditOp,          \* decrementPaidCredits / addPaidCredits calls
    creditLog,         \* history: decrements that returned true, credits added
    failedAttempts,    \* admin-auth: ip -> { count, lockUntil }, present entries only
    loginRateLimit,    \* admin-routes: ip -> { count, resetAt }, present entries only
    login              \* history of POST /login per ip

shopVars == <<generatedImages, posterPurchases, orders, users, rowLock, userLock,
              buyer, publisher, editor, commits, faults, counted, hist>>
cacheVars == <<queryCache, reader, purchaseInvalidations>>
healthVars == <<databaseHealthy, consecutiveFailures, lastCheckTime, probing,
                request, probeLog>>

execVars == <<call, leased, conn, miss>>
creditVars == <<paidCredits, creditOp, creditLog>>
loginVars == <<failedAttempts, loginRateLimit, login>>
auxVars == <<execVars, creditVars, loginVars>>

vars == <<shopVars, cacheVars, now, healthVars, auxVars>>

dbVars == <<generatedImages, posterPurchases, orders, users>>
quotaVars == <<users, userLock, publisher, counted, hist>>

\* ------------------------------------------------------------- the rows
NewImage ==
    [isPublic |-> FALSE, isApproved |-> FALSE, soldCount |-> 0,
     totalSupply |-> 0, pricePerUnit |-> 0]

NewUser ==
    [postersForSale |-> 0, userType |-> "normal", subscriptionStatus |-> "none"]

IdleBuyer ==
    [pc |-> "idle", img |-> NoImage, editionNumber |-> 0,
     result |-> "none", tx |-> "none"]

IdlePublisher ==
    [pc |-> "idle", email |-> "u1", img |-> NoImage, isPublic |-> FALSE,
     totalSupply |-> 0, pricePerUnit |-> 0,
     user |-> NewUser, imageIsPublic |-> FALSE, result |-> "none"]

IdleEditor ==
    [pc |-> "idle", img |-> NoImage, soldCount |-> 0, result |-> "none"]

\* image.totalSupply || 10
EffectiveSupply(image) ==
    IF image.totalSupply = 0 THEN DefaultSupply ELSE image.totalSupply

\* mutant: the edition number skips one
NextEditionSkips(image) == image.soldCount + 2

\* const editionNumber = (image.soldCount || 0) + 1
NextEdition(image) == image.soldCount + 1

\* if (soldCount >= totalSupply) throw 'This limited edition is sold out'
SoldOut(image) == image.soldCount >= EffectiveSupply(image)

\* uniqueness constraint of poster_purchases on (imageId, editionNumber)
EditionTaken(img, ed) ==
    \E i \in 1..Len(posterPurchases) :
        posterPurchases[i].imageId = img /\ posterPurchases[i].editionNumber = ed

\* ROLLBACK / COMMIT give back every row lock the request holds
Release(lock, req) ==
    [k \in DOMAIN lock |-> IF lock[k] = req THEN NoReq ELSE lock[k]]

\* ------------------------------------------------------------ the cache
\* cache keys, written token by token ("generated-image:" ++ id, ...)
ImageKey(img) == <<"generated-image:", img>>
PurchasesKey(img) == <<"poster-purchases:", img>>
UserKey(u) == <<"user:", u>>
OrdersListKey == <<"order", "s", ":", "list">>
CatalogueOrdersListKey == <<"catalogue-", "order", "s", ":", "list">>
OrderKey(id) == <<"order", ":", id>>
CatalogueOrderKey(id) == <<"catalogue-", "order", ":", id>>

\* new NodeCache(...): no entry
EmptyCache == [k \in {} |-> 0]

\* what a producer or the cache hands back: a value, or JavaScript's undefined
Undefined == [defined |-> FALSE]
Defined(v) == [defined |-> TRUE, v |-> v]

\* NodeCache.get: an entry is served until its expiry time has passed
Live(cache, key) == key \in DOMAIN cache /\ cache[key].expires >= now

CacheGet(cache, key) == IF Live(cache, key) THEN cache[key].value ELSE Undefined

\* NodeCache.set(key, value, ttl)
CacheSet(cache, key, value, ttl) ==
    [k \in DOMAIN cache \cup {key} |->
        IF k = key THEN [value |-> value, expires |-> now + ttl] ELSE cache[k]]

\* NodeCache.del
CacheDel(cache, keys) == [k \in DOMAIN cache \ keys |-> cache[k]]

\* keyPattern.includes('*')
HasStar(keyPattern) == \E i \in 1..Len(keyPattern) : keyPattern[i] = "*"

FirstStar(keyPattern) ==
    CHOOSE i \in 1..Len(keyPattern) :
        keyPattern[i] = "*" /\ \A j \in 1..(i - 1) : keyPattern[j] # "*"

\* new RegExp(keyPattern.replace('*', '.*')): String.replace with a string
\* pattern rewrites the first '*' only; a later '*' stays in the source of the
\* regular expression, where it repeats the character before it.  An atom is a
\* token ("." for any) that occurs once or is repeated zero or more times.
\* (A token in front of a later '*' is a single character.)
PatternRegExp(keyPattern) ==
    LET first == FirstStar(keyPattern)
        Repeated(i) == i < Len(keyPattern) /\ keyPattern[i + 1] = "*" /\ i + 1 # first
        Atom(i) == IF i = first THEN [ch |-> ".", rep |-> TRUE]
                   ELSE [ch |-> keyPattern[i], rep |-> Repeated(i)]
        Kept == {i \in 1..Len(keyPattern) : i = first \/ keyPattern[i] # "*"}
        RECURSIVE Build(_)
        Build(i) == IF i > Len(keyPattern) THEN <<>>
                    ELSE IF i \in Kept THEN <<Atom(i)>> \o Build(i + 1)
                    ELSE Build(i + 1)
    IN Build(1)

\* the regular expression matches a prefix of key (it is not anchored at the end)
RECURSIVE MatchHere(_, _)
MatchHere(re, key) ==
    IF re = <<>> THEN TRUE
    ELSE LET a == Head(re)
             Fits == key # <<>> /\ (a.ch = "." \/ a.ch = Head(key))
         IN IF a.rep
              THEN MatchHere(Tail(re), key) \/ (Fits /\ MatchHere(re, Tail(key)))
              ELSE Fits /\ MatchHere(Tail(re), Tail(key))

\* RegExp.test: a match may start anywhere in the key
RegExpTest(re, key) ==
    \E i \in 1..(Len(key) + 1) : MatchHere(re, SubSeq(key, i, Len(key)))

\* invalidateCache(keyPattern): the cache it leaves
Invalidated(cache, keyPattern) ==
    IF HasStar(keyPattern)
      THEN CacheDel(cache, {k \in DOMAIN cache :
                               RegExpTest(PatternRegExp(keyPattern), k)})
      ELSE CacheDel(cache, {keyPattern})

\* invalidateCache called on its own
InvalidateCache(keyPattern) ==
    /\ queryCache' = Invalidated(queryCache, keyPattern)
    /\ UNCHANGED <<shopVars, reader, purchaseInvalidations, now, auxVars, healthVars>>

\* what the storage layer's producer of a key reads from the store (the order
\* keys: some order data)
DbRead(key) ==
    IF key[1] = "generated-image:"
      THEN IF key[2] \in Images THEN Defined(generatedImages[key[2]]) ELSE Undefined
    ELSE IF key[1] = "user:"
      THEN IF key[2] \in Users THEN Defined(users[key[2]]) ELSE Undefined
    ELSE Defined("orders")

Readers == 1..NumReaders

\* a cachedQuery call; seen is history: the store's value when the call was made
IdleReader ==
    [pc |-> "idle", key |-> <<>>, ttl |-> 0, attempt |-> 0, fetched |-> Undefined,
     result |-> Undefined, hit |-> FALSE, error |-> FALSE, seen |-> Undefined]

\* const cached = queryCache.get(cacheKey); if (cached !== undefined) return cached
CachedQueryStart(r, key, ttl) ==
    /\ reader[r].pc = "idle"
    /\ LET cached == CacheGet(queryCache, key) IN
       reader' = [reader EXCEPT ![r] =
          IF cached.defined
            THEN [IdleReader EXCEPT !.pc = "done", !.key = key, !.ttl = ttl,
                                    !.result = cached, !.hit = TRUE,
                                    !.seen = DbRead(key)]
            ELSE [IdleReader EXCEPT !.pc = "produce", !.key = key, !.ttl = ttl,
                                    !.attempt = 1, !.seen = DbRead(key)]]
    /\ UNCHANGED <<shopVars, queryCache, purchaseInvalidations, now, auxVars, healthVars>>

\* await executeWithRetry(queryFn): the producer's query is answered by the store
CachedQueryProduce(r) ==
    /\ reader[r].pc = "produce"
    /\ reader' = [reader EXCEPT ![r].pc = "store",
                                 ![r].fetched = DbRead(reader[r].key)]
    /\ UNCHANGED <<shopVars, queryCache, purchaseInvalidations, now, auxVars, healthVars>>

\* executeWithRetry: the producer throws; a connection error is retried while
\* attempt < maxRetries, any other error (and the last connection error) is
\* thrown to the caller of cachedQuery
CachedQueryFail(r, connectionError) ==
    /\ reader[r].pc = "produce"
    /\ reader' = [reader EXCEPT ![r] =
          IF connectionError /\ reader[r].attempt < MaxRetries
            THEN [reader[r] EXCEPT !.attempt = reader[r].attempt + 1]
            ELSE [reader[r] EXCEPT !.pc = "done", !.error = TRUE]]
    /\ UNCHANGED <<shopVars, queryCache, purchaseInvalidations, now, auxVars, healthVars>>

\* queryCache.set(cacheKey, result, ttl); return result
CachedQueryStore(r) ==
    /\ reader[r].pc = "store"
    /\ queryCache' = CacheSet(queryCache, reader[r].key, reader[r].fetched,
                               reader[r].ttl)
    /\ reader' = [reader EXCEPT ![r].pc = "done",
                                 ![r].result = reader[r].fetched]
    /\ UNCHANGED <<shopVars, purchaseInvalidations, now, auxVars, healthVars>>

\* the caller comes back with its next read
CachedQueryAgain(r) ==
    /\ reader[r].pc = "done"
    /\ reader' = [reader EXCEPT ![r] = IdleReader]
    /\ UNCHANGED <<shopVars, queryCache, purchaseInvalidations, now, auxVars, healthVars>>

CachedQueryStep(r, keys, ttls) ==
    \/ \E key \in keys, ttl \in ttls : CachedQueryStart(r, key, ttl)
    \/ CachedQueryProduce(r)
    \/ \E connectionError \in BOOLEAN : CachedQueryFail(r, connectionError)
    \/ CachedQueryStore(r)

\* storage.checkImageAvailability on what getGeneratedImageById returned
\* (limited editions only)
Availability(image) ==
    IF ~image.defined THEN [available |-> FALSE, remainingSupply |-> 0]
    ELSE LET remainingSupply == image.v.totalSupply - image.v.soldCount IN
         [available |-> remainingSupply > 0,
          remainingSupply |-> IF remainingSupply > 0 THEN remainingSupply ELSE 0]

\* 30 seconds pass
Tick ==
    /\ now < MaxTime
    /\ now' = now + 1
    /\ UNCHANGED <<shopVars, cacheVars, healthVars, auxVars>>

\* ------------------------------------------------------------ the breaker
Requests == 1..NumRequests
Timer == 0

\* a request at the middleware; unhealthy, probed and probeOk are history: the
\* health state it met, whether it ran a probe and whether that probe succeeded;
\* nextCalls and responses count the calls of next() and of res.status(503).json
IdleRequest == [pc |-> "idle", method |-> "none", outcome |-> "none",
                unhealthy |-> FALSE, probed |-> FALSE, probeOk |-> FALSE,
                nextCalls |-> 0, responses |-> 0]

\* mutant: the else of the then-callback is missing
OnProbeResultFallsThrough(isHealthy) ==
    IF isHealthy THEN [nextCalls |-> 1, responses |-> 1]
                 ELSE [nextCalls |-> 0, responses |-> 1]

\* .then(isHealthy => { if (isHealthy) next(); else res.status(503).json(...) })
OnProbeResult(isHealthy) ==
    IF isHealthy THEN [nextCalls |-> 1, responses |-> 0]
                 ELSE [nextCalls |-> 0, responses |-> 1]

\* the outcomes of the latest FailureThreshold probes, oldest first
Latest(log) ==
    IF Len(log) > FailureThreshold THEN SubSeq(log, 2, Len(log)) ELSE log

\* mutant: one failed probe is enough
BecomesUnhealthyAtOnce(failures) == failures >= 1

\* if (consecutiveFailures >= 3) databaseHealthy = false
BecomesUnhealthy(failures) == failures >= FailureThreshold

\* mutant: no request counts as a read
IsReadOperationNever(method) == FALSE

\* const isReadOperation = req.method === 'GET'
IsReadOperation(method) == method = "GET"

\* mutant: the age of the last probe is not looked at
NeedsCheckAlways(method) == ~IsReadOperation(method)

\* const needsCheck = !isReadOperation && (Date.now() - lastCheckTime > 30000)
NeedsCheck(method) ==
    ~IsReadOperation(method) /\ now - lastCheckTime > CheckInterval

\* setInterval(checkDatabaseHealth, 30000) and the check on module load:
\* pool.query('SELECT 1') is sent
TimerProbe ==
    /\ Timer \notin probing
    /\ probing' = probing \cup {Timer}
    /\ UNCHANGED <<shopVars, cacheVars, now, auxVars, databaseHealthy, consecutiveFailures,
                   lastCheckTime, request, probeLog>>

\* mutant: a successful probe resets the counter but not the health flag
ProbeSucceedKeepsFlag(o) ==
    /\ o \in probing
    /\ probing' = probing \ {o}
    /\ databaseHealthy' = databaseHealthy
    /\ consecutiveFailures' = 0
    /\ lastCheckTime' = now
    /\ probeLog' = Latest(Append(probeLog, TRUE))
    /\ request' = IF o \in Requests
                     THEN [request EXCEPT ![o].pc = "done", ![o].outcome = "next",
                                          ![o].probeOk = TRUE,
                                          ![o].nextCalls = OnProbeResult(TRUE).nextCalls,
                                          ![o].responses = OnProbeResult(TRUE).responses]
                     ELSE request
    /\ UNCHANGED <<shopVars, cacheVars, now, auxVars>>

\* checkDatabaseHealth: SELECT 1 is answered; for an on-demand probe, next()
ProbeSucceed(o) ==
    /\ o \in probing
    /\ probing' = probing \ {o}
    /\ databaseHealthy' = TRUE
    /\ consecutiveFailures' = 0
    /\ lastCheckTime' = now
    /\ probeLog' = Latest(Append(probeLog, TRUE))
    /\ request' = IF o \in Requests
                     THEN [request EXCEPT ![o].pc = "done", ![o].outcome = "next",
                                          ![o].probeOk = TRUE,
                                          ![o].nextCalls = OnProbeResult(TRUE).nextCalls,
                                          ![o].responses = OnProbeResult(TRUE).responses]
                     ELSE request
    /\ UNCHANGED <<shopVars, cacheVars, now, auxVars>>

\* checkDatabaseHealth: SELECT 1 throws; for an on-demand probe, 503
ProbeFail(o) ==
    /\ o \in probing
    /\ consecutiveFailures < MaxFailures
    /\ probing' = probing \ {o}
    /\ consecutiveFailures' = consecutiveFailures + 1
    /\ databaseHealthy' = IF BecomesUnhealthy(consecutiveFailures + 1)
                             THEN FALSE ELSE databaseHealthy
    /\ lastCheckTime' = now
    /\ probeLog' = Latest(Append(probeLog, FALSE))
    /\ request' = IF o \in Requests
                     THEN [request EXCEPT ![o].pc = "done", ![o].outcome = "503",
                                          ![o].nextCalls = OnProbeResult(FALSE).nextCalls,
                                          ![o].responses = OnProbeResult(FALSE).responses]
                     ELSE request
    /\ UNCHANGED <<shopVars, cacheVars, now, auxVars>>

\* databaseHealthMiddleware(req, res, next)
Arrive(j, method) ==
    /\ request[j].pc = "idle"
    /\ LET met == [IdleRequest EXCEPT !.method = method,
                                      !.unhealthy = ~databaseHealthy]
       IN IF ~databaseHealthy /\ ~IsReadOperation(method)
            THEN IF NeedsCheck(method)
                   THEN /\ probing' = probing \cup {j}
                        /\ request' = [request EXCEPT ![j] =
                              [met EXCEPT !.pc = "probing", !.probed = TRUE]]
                   ELSE /\ request' = [request EXCEPT ![j] =
                              [met EXCEPT !.pc = "done", !.outcome = "503",
                                          !.responses = 1]]
                        /\ UNCHANGED probing
            ELSE /\ request' = [request EXCEPT ![j] =
                       [met EXCEPT !.pc = "done", !.outcome = "next",
                                   !.nextCalls = 1]]
                 /\ UNCHANGED probing
    /\ UNCHANGED <<shopVars, cacheVars, now, auxVars, databaseHealthy, consecutiveFailures,
                   lastCheckTime, probeLog>>

\* the client sends its next request
RequestAgain(j) ==
    /\ request[j].pc = "done"
    /\ request' = [request EXCEPT ![j] = IdleRequest]
    /\ UNCHANGED <<shopVars, cacheVars, now, databaseHealthy, consecutiveFailures,
                   lastCheckTime, probing, probeLog, auxVars>>

\* ------------------------------------------------- the resilient executor
\* what a query can throw: an Error with (perhaps) a PostgreSQL code and a
\* message, written word by word
Errors ==
    {[code |-> "08006", message |-> <<"server", "closed">>],
     [code |-> "none", message |-> <<"connection", "refused">>],
     [code |-> "none", message |-> <<"query", "timeout">>],
     [code |-> "23505", message |-> <<"duplicate", "key">>],
     [code |-> "none", message |-> <<"sold", "out">>]}

NoError == [code |-> "none", message |-> <<>>]

\* const connectionErrorCodes = ['57P01', '57P02', '57P03', '08006', ...]
ConnectionErrorCodes ==
    {"57P01", "57P02", "57P03", "08006", "08001", "08004", "XX000"}

\* error.message.includes(word)
Includes(message, word) == \E i \in 1..Len(message) : message[i] = word

\* isConnectionError(error)
IsConnectionError(error) ==
    \/ error.code \in ConnectionErrorCodes
    \/ Includes(error.message, "connection")
    \/ Includes(error.message, "timeout")

\* mutant: the loop runs once more
LoopContinuesOnceMore(attempt, maxRetries) == attempt <= maxRetries

\* for (let attempt = 1; attempt <= maxRetries; attempt++): after attempt, the
\* loop goes on with attempt + 1
LoopContinues(attempt, maxRetries) == attempt + 1 <= maxRetries

\* what the k-th invocation of queryFn returns when it succeeds
ResultOf(k) == <<"rows", k>>

\* an executeWithRetry call; log is history: what each invocation of queryFn
\* did, in order
IdleCall ==
    [pc |-> "idle", maxRetries |-> 0, attempt |-> 0, lastError |-> NoError,
     outcome |-> "none", value |-> <<>>, thrown |-> NoError, log |-> <<>>]

\* executeWithRetry(queryFn, maxRetries): let lastError; attempt = 1; queryFn()
ExecuteWithRetry(maxRetries) ==
    /\ call.pc = "idle"
    /\ call' = [IdleCall EXCEPT !.pc = "invoke", !.maxRetries = maxRetries,
                                !.attempt = 1]
    /\ UNCHANGED <<shopVars, cacheVars, now, healthVars, leased, conn, miss, creditVars, loginVars>>

\* return await queryFn(): the promise is fulfilled
QueryFulfilled ==
    /\ call.pc = "invoke"
    /\ call' = [call EXCEPT !.pc = "done", !.outcome = "returned",
                            !.value = ResultOf(call.attempt),
                            !.log = Append(call.log, [ok |-> TRUE, error |-> NoError])]
    /\ UNCHANGED <<shopVars, cacheVars, now, healthVars, leased, conn, miss, creditVars, loginVars>>

\* catch (error): lastError = error; if (!isConnectionError(error)) throw error;
\* otherwise the backoff timer is started
QueryRejected(error) ==
    /\ call.pc = "invoke"
    /\ call' = IF IsConnectionError(error)
                 THEN [call EXCEPT !.pc = "backoff", !.lastError = error,
                          !.log = Append(call.log, [ok |-> FALSE, error |-> error])]
                 ELSE [call EXCEPT !.pc = "done", !.lastError = error,
                          !.outcome = "thrown", !.thrown = error,
                          !.log = Append(call.log, [ok |-> FALSE, error |-> error])]
    /\ UNCHANGED <<shopVars, cacheVars, now, healthVars, leased, conn, miss, creditVars, loginVars>>

\* the backoff timer fires: attempt++, and either queryFn() again or, the loop
\* being over, throw lastError
BackoffOver ==
    /\ call.pc = "backoff"
    /\ call' = IF LoopContinues(call.attempt, call.maxRetries)
                 THEN [call EXCEPT !.pc = "invoke", !.attempt = call.attempt + 1]
                 ELSE [call EXCEPT !.pc = "done", !.outcome = "thrown",
                                   !.thrown = call.lastError]
    /\ UNCHANGED <<shopVars, cacheVars, now, healthVars, leased, conn, miss, creditVars, loginVars>>

\* the caller makes its next call
CallAgain ==
    /\ call.pc = "done"
    /\ call' = IdleCall
    /\ UNCHANGED <<shopVars, cacheVars, now, healthVars, leased, conn, miss, creditVars, loginVars>>

\* ------------------------------------------------- the connection manager
Calls == 1..NumCalls

\* a withConnection call; leases and releases are history: how often
\* pool.connect() handed it a client and how often it called client.release()
IdleConn == [pc |-> "idle", outcome |-> "none", error |-> NoError,
             leases |-> 0, releases |-> 0]

RECURSIVE Sum(_, _)
Sum(f, S) == IF S = {} THEN 0
             ELSE LET x == CHOOSE y \in S : TRUE IN f[x] + Sum(f, S \ {x})

\* pool.totalCount - pool.idleCount
CheckedOut == Sum(leased, Calls)

\* mutant: the client is released after a normal return only
ReleasedOnReturnOnly(outcome) == outcome = "returned"

\* try { return await operation(client) } finally { client.release() }
Released(outcome) == outcome \in {"returned", "thrown"}

\* withConnection(operation): pool.connect() is called
WithConnection(c) ==
    /\ conn[c].pc = "idle"
    /\ conn' = [conn EXCEPT ![c] = [IdleConn EXCEPT !.pc = "connect"]]
    /\ UNCHANGED <<shopVars, cacheVars, now, healthVars, call, leased, miss, creditVars, loginVars>>

\* const client = await pool.connect(): a client is checked out
Connected(c) ==
    /\ conn[c].pc = "connect"
    /\ CheckedOut < PoolMax
    /\ leased' = [leased EXCEPT ![c] = leased[c] + 1]
    /\ conn' = [conn EXCEPT ![c].pc = "operation", ![c].leases = conn[c].leases + 1]
    /\ UNCHANGED <<shopVars, cacheVars, now, healthVars, call, miss, creditVars, loginVars>>

\* await pool.connect() rejects (connectionTimeoutMillis, server unreachable):
\* the error leaves withConnection before the try block
ConnectFailed(c, error) ==
    /\ conn[c].pc = "connect"
    /\ conn' = [conn EXCEPT ![c].pc = "done", ![c].outcome = "thrown",
                            ![c].error = error]
    /\ UNCHANGED <<shopVars, cacheVars, now, healthVars, call, leased, miss, creditVars, loginVars>>

\* await operation(client) settles with outcome; finally { client.release() }
OperationSettled(c, outcome, error) ==
    /\ conn[c].pc = "operation"
    /\ leased' = IF Released(outcome)
                   THEN [leased EXCEPT ![c] = leased[c] - 1] ELSE leased
    /\ conn' = [conn EXCEPT ![c].pc = "done", ![c].outcome = outcome,
                            ![c].error = error,
                            ![c].releases = IF Released(outcome)
                                              THEN conn[c].releases + 1
                                              ELSE conn[c].releases]
    /\ UNCHANGED <<shopVars, cacheVars, now, healthVars, call, miss, creditVars, loginVars>>

\* the caller makes its next call
ConnAgain(c) ==
    /\ conn[c].pc = "done"
    /\ conn' = [conn EXCEPT ![c] = IdleConn]
    /\ UNCHANGED <<shopVars, cacheVars, now, healthVars, call, leased, miss, creditVars, loginVars>>

\* ---------------------------------------- a cached read of the storage layer
\* getUserByEmail / getGeneratedImageById after the cache has missed:
\* cachedQuery runs executeWithRetry(queryFn), and queryFn itself runs
\* executeWithRetry(() => db.select()...).  outer and inner are the attempt
\* counters of the two loops; queries is history: how often db.select ran
IdleMiss == [pc |-> "idle", outer |-> 0, inner |-> 0, lastError |-> NoError,
             outcome |-> "none", thrown |-> NoError, queries |-> 0]

\* const result = await executeWithRetry(queryFn): both loops start
MissStart ==
    /\ miss.pc = "idle"
    /\ miss' = [IdleMiss EXCEPT !.pc = "query", !.outer = 1, !.inner = 1]
    /\ UNCHANGED <<shopVars, cacheVars, now, healthVars, call, leased, conn, creditVars, loginVars>>

\* db.select() is answered: both executeWithRetry return, the row is cached
SelectFulfilled ==
    /\ miss.pc = "query"
    /\ miss' = [miss EXCEPT !.pc = "done", !.outcome = "returned",
                            !.queries = miss.queries + 1]
    /\ UNCHANGED <<shopVars, cacheVars, now, healthVars, call, leased, conn, creditVars, loginVars>>

\* db.select() throws: an error that is no connection error is rethrown by the
\* inner and then by the outer loop; a connection error starts the inner backoff
SelectRejected(error) ==
    /\ miss.pc = "query"
    /\ miss' = IF IsConnectionError(error)
                 THEN [miss EXCEPT !.pc = "innerBackoff", !.lastError = error,
                                   !.queries = miss.queries + 1]
                 ELSE [miss EXCEPT !.pc = "done", !.outcome = "thrown",
                                   !.thrown = error, !.lastError = error,
                                   !.queries = miss.queries + 1]
    /\ UNCHANGED <<shopVars, cacheVars, now, healthVars, call, leased, conn, creditVars, loginVars>>

\* the inner backoff is over: db.select() again, or the inner loop throws its
\* last (connection) error, which the outer loop catches and backs off on
InnerBackoffOver ==
    /\ miss.pc = "innerBackoff"
    /\ miss' = IF LoopContinues(miss.inner, MaxRetries)
                 THEN [miss EXCEPT !.pc = "query", !.inner = miss.inner + 1]
                 ELSE [miss EXCEPT !.pc = "outerBackoff"]
    /\ UNCHANGED <<shopVars, cacheVars, now, healthVars, call, leased, conn, creditVars, loginVars>>

\* the outer backoff is over: queryFn() again, with a new inner loop, or the
\* outer loop throws the last error to the caller of cachedQuery
OuterBackoffOver ==
    /\ miss.pc = "outerBackoff"
    /\ miss' = IF LoopContinues(miss.outer, MaxRetries)
                 THEN [miss EXCEPT !.pc = "query", !.outer = miss.outer + 1,
                                   !.inner = 1]
                 ELSE [miss EXCEPT !.pc = "done", !.outcome = "thrown",
                                   !.thrown = miss.lastError]
    /\ UNCHANGED <<shopVars, cacheVars, now, healthVars, call, leased, conn, creditVars, loginVars>>

\* the next read that misses
MissAgain ==
    /\ miss.pc = "done"
    /\ miss' = IdleMiss
    /\ UNCHANGED <<shopVars, cacheVars, now, healthVars, call, leased, conn, creditVars, loginVars>>

\* --------------------------------------------------- generation credits
\* the customer whose credits row the calls are about (the row exists)
Customer == "u1"

CreditsKey(email) == <<"credits:", email>>

CreditOps == 1..NumCreditOps

\* a decrementPaidCredits or addPaidCredits call; fetched is what db.select
\* returned to getGenerationCreditsByEmail, currentCredits the value the update
\* is computed from
IdleCreditOp ==
    [pc |-> "idle", kind |-> "none", creditsToAdd |-> 0, attempt |-> 0,
     fetched |-> 0, currentCredits |-> 0, result |-> "none"]

\* const currentCredits = user.paidCredits || 0;
\* decrementPaidCredits: if (currentCredits < 1) return false;
\* then db.update(...) is sent
Decide(op, user) ==
    IF op.kind = "decrement" /\ user.paidCredits < 1
      THEN [op EXCEPT !.pc = "done", !.result = "false"]
      ELSE [op EXCEPT !.pc = "update", !.currentCredits = user.paidCredits]

\* the body passed to executeWithRetry starts: getGenerationCreditsByEmail
\* looks into the cache; a hit is used at once, a miss sends db.select
BodyStart(op) ==
    LET cached == CacheGet(queryCache, CreditsKey(Customer)) IN
    IF cached.defined THEN Decide(op, cached.v) ELSE [op EXCEPT !.pc = "query"]

\* decrementPaidCredits(email) / addPaidCredits(email, creditsToAdd)
CreditCall(k, kind, creditsToAdd) ==
    /\ creditOp[k].pc = "idle"
    /\ creditLog.calls < MaxCreditCalls
    /\ creditOp' = [creditOp EXCEPT ![k] =
          BodyStart([IdleCreditOp EXCEPT !.kind = kind, !.attempt = 1,
                                         !.creditsToAdd = creditsToAdd])]
    /\ creditLog' = [creditLog EXCEPT !.calls = creditLog.calls + 1]
    /\ UNCHANGED <<shopVars, cacheVars, now, healthVars, execVars, paidCredits,
                   loginVars>>

\* db.select().from(generationCredits) is answered by the store
CreditQuery(k) ==
    /\ creditOp[k].pc = "query"
    /\ creditOp' = [creditOp EXCEPT ![k].pc = "store", ![k].fetched = paidCredits]
    /\ UNCHANGED <<shopVars, cacheVars, now, healthVars, execVars, paidCredits,
                   creditLog, loginVars>>

\* cachedQuery: queryCache.set(cacheKey, result, 60); return result; the caller
\* goes on with the row
CreditStore(k) ==
    /\ creditOp[k].pc = "store"
    /\ LET user == [paidCredits |-> creditOp[k].fetched] IN
       /\ queryCache' = CacheSet(queryCache, CreditsKey(Customer), Defined(user),
                                  CreditsTtl)
       /\ creditOp' = [creditOp EXCEPT ![k] = Decide(creditOp[k], user)]
    /\ UNCHANGED <<shopVars, reader, purchaseInvalidations, now, healthVars,
                   execVars, paidCredits, creditLog, loginVars>>

\* db.update(generationCredits).set({ paidCredits: currentCredits - 1 }) or
\* .set({ paidCredits: currentCredits + creditsToAdd }) is applied by the store
CreditUpdate(k) ==
    /\ creditOp[k].pc = "update"
    /\ paidCredits' = IF creditOp[k].kind = "decrement"
                        THEN creditOp[k].currentCredits - 1
                        ELSE creditOp[k].currentCredits + creditOp[k].creditsToAdd
    /\ creditOp' = [creditOp EXCEPT ![k].pc = "invalidate"]
    /\ UNCHANGED <<shopVars, cacheVars, now, healthVars, execVars, creditLog,
                   loginVars>>

\* db.update throws a connection error before it is applied: executeWithRetry
\* backs off and runs the body again, or, after the last attempt, throws, and
\* the catch returns false
CreditUpdateFails(k) ==
    /\ creditOp[k].pc = "update"
    /\ creditOp' = [creditOp EXCEPT ![k] =
          IF LoopContinues(creditOp[k].attempt, MaxRetries)
            THEN [creditOp[k] EXCEPT !.pc = "backoff"]
            ELSE [creditOp[k] EXCEPT !.pc = "done", !.result = "false"]]
    /\ UNCHANGED <<shopVars, cacheVars, now, healthVars, execVars, paidCredits,
                   creditLog, loginVars>>

\* the backoff is over: attempt++, the body runs again from the cached read
CreditBackoffOver(k) ==
    /\ creditOp[k].pc = "backoff"
    /\ creditOp' = [creditOp EXCEPT ![k] =
          BodyStart([creditOp[k] EXCEPT !.attempt = creditOp[k].attempt + 1])]
    /\ UNCHANGED <<shopVars, cacheVars, now, healthVars, execVars, paidCredits,
                   creditLog, loginVars>>

\* invalidateCache(`credits:${email}`); return true
CreditInvalidate(k) ==
    /\ creditOp[k].pc = "invalidate"
    /\ queryCache' = Invalidated(queryCache, CreditsKey(Customer))
    /\ creditOp' = [creditOp EXCEPT ![k].pc = "done", ![k].result = "true"]
    /\ creditLog' = IF creditOp[k].kind = "decrement"
                      THEN [creditLog EXCEPT !.decrements = creditLog.decrements + 1]
                      ELSE [creditLog EXCEPT
                               !.added = creditLog.added + creditOp[k].creditsToAdd]
    /\ UNCHANGED <<shopVars, reader, purchaseInvalidations, now, healthVars,
                   execVars, paidCredits, loginVars>>

\* the next call
CreditAgain(k) ==
    /\ creditOp[k].pc = "done"
    /\ creditOp' = [creditOp EXCEPT ![k] = IdleCreditOp]
    /\ UNCHANGED <<shopVars, cacheVars, now, healthVars, execVars, paidCredits,
                   creditLog, loginVars>>

\* ------------------------------------------------------- POST /login
IPs == {"ip1", "ip2"}

\* Date.now(): milliseconds since 1970, so above 0 when the server starts
DateNow == now + 1

\* Map.set / Map.delete
MapSet(map, key, value) ==
    [k \in DOMAIN map \cup {key} |-> IF k = key THEN value ELSE map[k]]

MapDelete(map, key) == [k \in DOMAIN map \ {key} |-> map[k]]

\* checkRateLimit(ip): the entry it stores
RateData(ip) ==
    LET rateData == IF ip \in DOMAIN loginRateLimit
                      THEN loginRateLimit[ip]
                      ELSE [count |-> 0, resetAt |-> DateNow + RateLimitWindow]
    IN IF rateData.resetAt < DateNow
         THEN [count |-> 1, resetAt |-> DateNow + RateLimitWindow]
         ELSE [rateData EXCEPT !.count = rateData.count + 1]

\* isIpLockedOut(ip): what it returns
IsIpLockedOut(attempts, ip) ==
    /\ ip \in DOMAIN attempts
    /\ ~(attempts[ip].lockUntil < DateNow)
    /\ attempts[ip].count >= MaxFailedAttempts

\* isIpLockedOut(ip): if (attempt.lockUntil < Date.now()) failedAttempts.delete(ip)
AfterLockCheck(attempts, ip) ==
    IF ip \in DOMAIN attempts /\ attempts[ip].lockUntil < DateNow
      THEN MapDelete(attempts, ip) ELSE attempts

\* recordFailedLoginAttempt(ip)
RecordFailedLoginAttempt(attempts, ip) ==
    LET attempt == IF ip \in DOMAIN attempts THEN attempts[ip]
                   ELSE [count |-> 0, lockUntil |-> 0]
        count == attempt.count + 1
    IN MapSet(attempts, ip,
              [count |-> count,
               lockUntil |-> IF count >= MaxFailedAttempts
                               THEN DateNow + LockoutDuration
                               ELSE attempt.lockUntil])

\* resetFailedLoginAttempts(ip)
ResetFailedLoginAttempts(attempts, ip) == MapDelete(attempts, ip)

\* the history of a request answered with status
Answered(ip, status) ==
    [login EXCEPT
        !.total = login.total + 1, !.ip = ip, !.status[ip] = status,
        !.run[ip] = IF status = "401" THEN login.run[ip] + 1
                    ELSE IF status = "200" THEN 0 ELSE login.run[ip],
        !.at[ip] = IF status = "401" /\ login.run[ip] + 1 = MaxFailedAttempts
                     THEN DateNow ELSE login.at[ip]]

\* adminRouter.post('/login'): body is "valid" (the admin's credentials),
\* "wrong" (well-formed, not the admin's) or "malformed" (rejected by the schema)
Login(ip, body) ==
    /\ login.total < MaxLogins
    /\ loginRateLimit' = MapSet(loginRateLimit, ip, RateData(ip))
    /\ IF RateData(ip).count > MaxLoginAttempts
         THEN /\ login' = Answered(ip, "429")
              /\ UNCHANGED failedAttempts
       ELSE IF IsIpLockedOut(failedAttempts, ip)
         THEN /\ login' = Answered(ip, "403")
              /\ failedAttempts' = AfterLockCheck(failedAttempts, ip)
       ELSE IF body = "malformed"
         THEN /\ login' = Answered(ip, "400")
              /\ failedAttempts' = AfterLockCheck(failedAttempts, ip)
       ELSE IF body = "valid"
         THEN /\ login' = Answered(ip, "200")
              /\ failedAttempts' =
                    ResetFailedLoginAttempts(AfterLockCheck(failedAttempts, ip), ip)
       ELSE /\ login' = Answered(ip, "401")
            /\ failedAttempts' =
                  RecordFailedLoginAttempt(AfterLockCheck(failedAttempts, ip), ip)
    /\ UNCHANGED <<shopVars, cacheVars, now, healthVars, execVars, creditVars>>

\* ------------------------------------------------- POST /purchase-poster
\* the thrown error leaves db.transaction (ROLLBACK) and the catch answers 500
PurchaseAbort(p, why) ==
    /\ buyer' = [buyer EXCEPT ![p].pc = "done", ![p].result = why,
                               ![p].tx = "rolledback"]
    /\ rowLock' = Release(rowLock, BuyerReq(p))

\* mutant: the purchase row is inserted before the sold-out check
PurchaseBeginInsertsFirst(p, img) ==
    /\ buyer[p].pc = "idle"
    /\ img # NoImage
    /\ generatedImages[img].isPublic
    /\ posterPurchases' = Append(posterPurchases,
          [imageId |-> img, editionNumber |-> NextEdition(generatedImages[img]),
           userEmail |-> p])
    /\ IF SoldOut(generatedImages[img])
         THEN buyer' = [buyer EXCEPT ![p].pc = "done", ![p].img = img,
                                     ![p].result = "SoldOut", ![p].tx = "rolledback"]
         ELSE buyer' = [buyer EXCEPT ![p].pc = "update", ![p].img = img,
                          ![p].editionNumber = NextEdition(generatedImages[img]),
                          ![p].tx = "open"]
    /\ UNCHANGED <<generatedImages, orders, users, rowLock, userLock, publisher, editor,
                   commits, faults, counted, hist>>
    /\ UNCHANGED <<cacheVars, now, auxVars, healthVars>>

\* BEGIN; tx.select() of the image row; the checks; the edition number
PurchaseBegin(p, img) ==
    /\ buyer[p].pc = "idle"
    /\ IF img = NoImage
         THEN PurchaseAbort(p, "NotFound")
         ELSE LET image == generatedImages[img] IN
              IF ~image.isPublic
                THEN /\ buyer' = [buyer EXCEPT ![p].pc = "done", ![p].img = img,
                                     ![p].result = "NotPublic", ![p].tx = "rolledback"]
                     /\ UNCHANGED rowLock
              ELSE IF SoldOut(image)
                THEN /\ buyer' = [buyer EXCEPT ![p].pc = "done", ![p].img = img,
                                     ![p].result = "SoldOut", ![p].tx = "rolledback"]
                     /\ UNCHANGED rowLock
              ELSE /\ buyer' = [buyer EXCEPT ![p].pc = "insert", ![p].img = img,
                                   ![p].editionNumber = NextEdition(image),
                                   ![p].tx = "open"]
                   /\ UNCHANGED rowLock
    /\ UNCHANGED <<dbVars, userLock, publisher, editor, commits, faults, counted, hist>>
    /\ UNCHANGED <<cacheVars, now, auxVars, healthVars>>

\* storage.createPosterPurchase: db.insert (own connection, commits at once),
\* then invalidateCache(`poster-purchases:${imageId}`)
PurchaseInsert(p) ==
    /\ buyer[p].pc = "insert"
    /\ IF EditionTaken(buyer[p].img, buyer[p].editionNumber)
         THEN /\ PurchaseAbort(p, "DuplicateKey")
              /\ UNCHANGED posterPurchases
         ELSE /\ posterPurchases' = Append(posterPurchases,
                     [imageId |-> buyer[p].img,
                      editionNumber |-> buyer[p].editionNumber,
                      userEmail |-> p])
              /\ buyer' = [buyer EXCEPT ![p].pc = "update"]
              /\ UNCHANGED rowLock
    /\ UNCHANGED <<generatedImages, orders, quotaVars, editor, commits, faults>>
    /\ IF buyer'[p].pc = "update"
         THEN /\ queryCache' = Invalidated(queryCache, PurchasesKey(buyer[p].img))
              /\ purchaseInvalidations' = purchaseInvalidations \cup
                    {[key |-> PurchasesKey(buyer[p].img), by |-> p, committed |-> FALSE]}
         ELSE UNCHANGED <<queryCache, purchaseInvalidations>>
    /\ UNCHANGED <<reader, now, auxVars, healthVars>>

\* tx.update(generatedImages).set({ soldCount: editionNumber }): takes the row lock
PurchaseUpdate(p) ==
    /\ buyer[p].pc = "update"
    /\ rowLock[buyer[p].img] = NoReq
    /\ rowLock' = [rowLock EXCEPT ![buyer[p].img] = BuyerReq(p)]
    /\ buyer' = [buyer EXCEPT ![p].pc = "order"]
    /\ UNCHANGED <<dbVars, quotaVars, editor, commits, faults>>
    /\ UNCHANGED <<cacheVars, now, auxVars, healthVars>>

\* storage.createOrder: db.insert (own connection, commits at once), then
\* invalidateCache('orders:list')
PurchaseOrder(p) ==
    /\ buyer[p].pc = "order"
    /\ orders' = orders \cup {[imageId |-> buyer[p].img,
                               editionNumber |-> buyer[p].editionNumber,
                               email |-> p]}
    /\ buyer' = [buyer EXCEPT ![p].pc = "respond"]
    /\ UNCHANGED <<generatedImages, posterPurchases, quotaVars, rowLock, editor,
                   commits, faults>>
    /\ queryCache' = Invalidated(queryCache, OrdersListKey)
    /\ purchaseInvalidations' = purchaseInvalidations \cup
          {[key |-> OrdersListKey, by |-> p, committed |-> FALSE]}
    /\ UNCHANGED <<reader, now, auxVars, healthVars>>

\* return res.json({ success: true, editionNumber, ... }) inside the callback
PurchaseRespond(p) ==
    /\ buyer[p].pc = "respond"
    /\ buyer' = [buyer EXCEPT ![p].pc = "commit", ![p].result = "ok"]
    /\ UNCHANGED <<dbVars, userLock, rowLock, publisher, editor, commits, faults,
                   counted, hist>>
    /\ UNCHANGED <<cacheVars, now, auxVars, healthVars>>

\* COMMIT: the soldCount write becomes visible and the row lock is released
PurchaseCommit(p) ==
    /\ buyer[p].pc = "commit"
    /\ generatedImages' = [generatedImages EXCEPT
                              ![buyer[p].img].soldCount = buyer[p].editionNumber]
    /\ rowLock' = Release(rowLock, BuyerReq(p))
    /\ buyer' = [buyer EXCEPT ![p].pc = "done", ![p].tx = "committed"]
    /\ commits' = Append(commits,
                     [imageId |-> buyer[p].img,
                      editionNumber |-> buyer[p].editionNumber,
                      soldCount |-> generatedImages'[buyer[p].img].soldCount])
    /\ UNCHANGED <<posterPurchases, orders, quotaVars, editor, faults>>
    /\ UNCHANGED <<cacheVars, now, auxVars, healthVars>>

\* a statement of the transaction body throws (connection lost, timeout):
\* createPosterPurchase and createOrder rethrow, tx.update rejects
PurchaseFail(p) ==
    /\ buyer[p].pc \in {"insert", "update", "order"}
    /\ faults < MaxFaults
    /\ faults' = faults + 1
    /\ PurchaseAbort(p, "Error")
    /\ UNCHANGED <<dbVars, userLock, publisher, editor, commits, counted, hist>>
    /\ UNCHANGED <<cacheVars, now, auxVars, healthVars>>

\* COMMIT itself fails after res.json has been sent
PurchaseCommitFail(p) ==
    /\ buyer[p].pc = "commit"
    /\ faults < MaxFaults
    /\ faults' = faults + 1
    /\ buyer' = [buyer EXCEPT ![p].pc = "done", ![p].tx = "rolledback"]
    /\ rowLock' = Release(rowLock, BuyerReq(p))
    /\ UNCHANGED <<dbVars, userLock, publisher, editor, commits, counted, hist>>
    /\ UNCHANGED <<cacheVars, now, auxVars, healthVars>>

PurchaseStep(p, imgs) ==
    \/ \E img \in imgs \cup {NoImage} : PurchaseBegin(p, img)
    \/ PurchaseInsert(p)
    \/ PurchaseUpdate(p)
    \/ PurchaseOrder(p)
    \/ PurchaseRespond(p)
    \/ PurchaseCommit(p)
    \/ PurchaseFail(p)
    \/ PurchaseCommitFail(p)

\* --------------------------------------------- PATCH /images/:id/public
\* user.userType === 'artistic_collective' && user.subscriptionStatus === 'active'
\* (a subscription end date, when set, is taken to lie in the future)
IsSubscribed(user) ==
    user.userType = "artistic_collective" /\ user.subscriptionStatus = "active"

\* mutant: the quota check lets a third poster through
QuotaExceededOffByOne(user) ==
    ~IsSubscribed(user) /\ user.postersForSale > FreeQuota

\* if (!isSubscribed && postersForSale >= 2) -> 403 needsSubscription
QuotaExceeded(user) == ~IsSubscribed(user) /\ user.postersForSale >= FreeQuota

\* if (image.isPublic && image.soldCount > 0)
\*   if (totalSupply !== image.totalSupply || pricePerUnit !== image.pricePerUnit) -> 400
SupplyChangeRefused(image, ts, price) ==
    /\ image.isPublic /\ image.soldCount > 0
    /\ (ts # image.totalSupply \/ price # image.pricePerUnit)

\* mutant: the counter is tracked for subscribed sellers too
CounterTouchedAlways(user, imageIsPublic, isPublic) == isPublic # imageIsPublic

\* if (!isSubscribed) { if (isPublic && !image.isPublic) ... else if (!isPublic && image.isPublic) ... }
CounterTouched(user, imageIsPublic, isPublic) ==
    ~IsSubscribed(user) /\ isPublic # imageIsPublic

\* postersForSale + 1  /  GREATEST(0, postersForSale - 1)
NewCounter(n, isPublic) ==
    IF isPublic THEN n + 1 ELSE IF n > 0 THEN n - 1 ELSE 0

\* the response is sent; nothing of the request is kept but its outcome
PublishEnd(q, why) ==
    publisher' = [publisher EXCEPT ![q] =
        [IdlePublisher EXCEPT !.pc = "done", !.result = why]]

\* requireAuthentication reads the user row into req.user; the body is validated
PublishStart(q, email, img, isPublic, ts, price) ==
    /\ publisher[q].pc = "idle"
    /\ IF isPublic /\ (ts < 1 \/ ts > 1000 \/ price < MinPrice)
         THEN PublishEnd(q, "BadRequest")
         ELSE publisher' = [publisher EXCEPT ![q] =
                 [IdlePublisher EXCEPT !.pc = "read", !.email = email, !.img = img,
                                       !.isPublic = isPublic, !.totalSupply = ts,
                                       !.pricePerUnit = price, !.user = users[email]]]
    /\ UNCHANGED <<dbVars, rowLock, userLock, buyer, editor, commits, faults, counted>>
    /\ UNCHANGED <<cacheVars, now, auxVars, healthVars>>

\* db.select() of the image row, then the ownership, quota and supply checks
PublishRead(q) ==
    /\ publisher[q].pc = "read"
    /\ LET r == publisher[q] IN
       IF r.img = NoImage THEN PublishEnd(q, "NotFound")
       ELSE LET image == generatedImages[r.img] IN
            IF Owner(r.img) # r.email THEN PublishEnd(q, "Forbidden")
            ELSE IF r.isPublic /\ QuotaExceeded(r.user)
              THEN PublishEnd(q, "QuotaExceeded")
            ELSE IF SupplyChangeRefused(image, r.totalSupply, r.pricePerUnit)
              THEN PublishEnd(q, "InvalidSupplyChange")
            ELSE publisher' = [publisher EXCEPT ![q].pc = "txImage",
                                               ![q].imageIsPublic = image.isPublic]
    /\ UNCHANGED <<dbVars, rowLock, userLock, buyer, editor, commits, faults, counted>>
    /\ UNCHANGED <<cacheVars, now, auxVars, healthVars>>

\* BEGIN; tx.update(generatedImages).set(updateData): takes the image row lock
PublishTxImage(q) ==
    /\ publisher[q].pc = "txImage"
    /\ rowLock[publisher[q].img] = NoReq
    /\ rowLock' = [rowLock EXCEPT ![publisher[q].img] = PublisherReq(q)]
    /\ publisher' = [publisher EXCEPT ![q].pc =
          IF CounterTouched(publisher[q].user, publisher[q].imageIsPublic,
                            publisher[q].isPublic)
            THEN "txUser" ELSE "commit"]
    /\ UNCHANGED <<dbVars, userLock, buyer, editor, commits, faults, counted>>
    /\ UNCHANGED <<cacheVars, now, auxVars, healthVars>>

\* tx.update(users).set({ postersForSale: sql`...` }): takes the user row lock
PublishTxUser(q) ==
    /\ publisher[q].pc = "txUser"
    /\ userLock[publisher[q].email] = NoReq
    /\ userLock' = [userLock EXCEPT ![publisher[q].email] = PublisherReq(q)]
    /\ publisher' = [publisher EXCEPT ![q].pc = "commit"]
    /\ UNCHANGED <<dbVars, rowLock, buyer, editor, commits, faults, counted>>
    /\ UNCHANGED <<cacheVars, now, auxVars, healthVars>>

\* COMMIT: both updates become visible, the locks are released;
\* if (posterCountChanged) invalidateCache(`user:${user.email}`); res.json
PublishCommit(q) ==
    /\ publisher[q].pc = "commit"
    /\ LET r == publisher[q]
           row == generatedImages[r.img]
       IN /\ generatedImages' = [generatedImages EXCEPT ![r.img] =
                IF r.isPublic
                  THEN [row EXCEPT !.isPublic = TRUE, !.totalSupply = r.totalSupply,
                                   !.pricePerUnit = r.pricePerUnit]
                  ELSE [row EXCEPT !.isPublic = FALSE]]
          /\ users' = IF userLock[r.email] = PublisherReq(q)
                        THEN [users EXCEPT ![r.email].postersForSale =
                                 NewCounter(users[r.email].postersForSale, r.isPublic)]
                        ELSE users
          /\ counted' = [counted EXCEPT ![r.img] =
                IF ~r.isPublic THEN FALSE
                ELSE IF row.isPublic THEN counted[r.img]
                ELSE ~IsSubscribed(users[r.email])]
    /\ rowLock' = Release(rowLock, PublisherReq(q))
    /\ userLock' = Release(userLock, PublisherReq(q))
    /\ PublishEnd(q, "ok")
    /\ UNCHANGED <<posterPurchases, orders, buyer, editor, commits, faults>>
    /\ queryCache' = IF userLock[publisher[q].email] = PublisherReq(q)
                        THEN Invalidated(queryCache, UserKey(publisher[q].email))
                        ELSE queryCache
    /\ UNCHANGED <<reader, purchaseInvalidations, now, auxVars, healthVars>>

\* the same client sends its next request
PublishAgain(q) ==
    /\ publisher[q].pc = "done"
    /\ publisher' = [publisher EXCEPT ![q] = IdlePublisher]
    /\ UNCHANGED <<dbVars, rowLock, userLock, buyer, editor, commits, faults, counted>>
    /\ UNCHANGED <<cacheVars, now, auxVars, healthVars>>

\* request bodies: without the supply and price fields, or with valid ones
NoBody == [totalSupply |-> 0, pricePerUnit |-> 0]
Body(ts) == [totalSupply |-> ts, pricePerUnit |-> MinPrice]
Bodies == {NoBody} \cup {Body(ts) : ts \in 1..MaxSupply}

PublishStep(q, emails, imgs, bodies) ==
    \/ \E email \in emails, img \in imgs, isPublic \in BOOLEAN, b \in bodies :
            PublishStart(q, email, img, isPublic, b.totalSupply, b.pricePerUnit)
    \/ PublishRead(q)
    \/ PublishTxImage(q)
    \/ PublishTxUser(q)
    \/ PublishCommit(q)

\* ------------------------------------- PATCH /admin/images/:id/edition
\* db.select() of the image; if (soldCount > (image.totalSupply || 10)) -> 400
EditionStart(e, img, soldCount) ==
    /\ editor[e].pc \in {"idle", "done"}
    /\ editor' = [editor EXCEPT ![e] =
          IF soldCount > EffectiveSupply(generatedImages[img])
            THEN [IdleEditor EXCEPT !.pc = "done", !.img = img, !.result = "BadRequest"]
            ELSE [IdleEditor EXCEPT !.pc = "update", !.img = img,
                                    !.soldCount = soldCount]]
    /\ UNCHANGED <<dbVars, rowLock, userLock, buyer, publisher, commits, faults, counted, hist>>
    /\ UNCHANGED <<cacheVars, now, auxVars, healthVars>>

\* db.update(generatedImages).set({ soldCount }): waits for the row lock
EditionUpdate(e) ==
    /\ editor[e].pc = "update"
    /\ rowLock[editor[e].img] = NoReq
    /\ generatedImages' = [generatedImages EXCEPT
                              ![editor[e].img].soldCount = editor[e].soldCount]
    /\ editor' = [editor EXCEPT ![e] =
          [IdleEditor EXCEPT !.pc = "done", !.img = editor[e].img, !.result = "ok"]]
    /\ UNCHANGED <<posterPurchases, orders, users, rowLock, userLock, buyer, publisher,
                   commits, faults, counted, hist>>
    /\ UNCHANGED <<cacheVars, now, auxVars, healthVars>>

EditionStep(e, imgs) ==
    \/ \E img \in imgs, soldCount \in 0..MaxSupply : EditionStart(e, img, soldCount)
    \/ EditionUpdate(e)

\* ------------------------- PATCH /admin/images/:id/approve and /reject
Approve(img) ==
    /\ rowLock[img] = NoReq
    /\ generatedImages' = [generatedImages EXCEPT ![img].isApproved = TRUE]
    /\ UNCHANGED <<posterPurchases, orders, users, rowLock, userLock, buyer, publisher,
                   editor, commits, faults, counted, hist>>
    /\ UNCHANGED <<cacheVars, now, auxVars, healthVars>>

Reject(img) ==
    /\ rowLock[img] = NoReq
    /\ generatedImages' = [generatedImages EXCEPT ![img].isPublic = FALSE,
                                                    ![img].isApproved = FALSE]
    /\ counted' = [counted EXCEPT ![img] = FALSE]
    /\ UNCHANGED <<posterPurchases, orders, users, rowLock, userLock, buyer, publisher,
                   editor, commits, faults, hist>>
    /\ UNCHANGED <<cacheVars, now, auxVars, healthVars>>

\* ------------------------------ Stripe webhook: subscription created/deleted
\* storage.updateUser: db.update(users), then invalidateCache(`user:${email}`)
SubscriptionChange(u, active) ==
    /\ userLock[u] = NoReq
    /\ users' = [users EXCEPT
          ![u].subscriptionStatus = IF active THEN "active" ELSE "canceled",
          ![u].userType = IF active THEN "artistic_collective" ELSE "normal"]
    /\ UNCHANGED <<generatedImages, posterPurchases, orders, rowLock, userLock, buyer,
                   publisher, editor, commits, faults, counted, hist>>
    /\ queryCache' = Invalidated(queryCache, UserKey(u))
    /\ UNCHANGED <<reader, purchaseInvalidations, now, auxVars, healthVars>>

\* ------------------------------------------------------------ the start
\* the data-access layer and the admin module right after they are loaded
InitAux ==
    /\ call = IdleCall
    /\ leased = [c \in Calls |-> 0]
    /\ conn = [c \in Calls |-> IdleConn]
    /\ miss = IdleMiss
    /\ paidCredits = 0
    /\ creditOp = [k \in CreditOps |-> IdleCreditOp]
    /\ creditLog = [calls |-> 0, decrements |-> 0, added |-> 0]
    /\ failedAttempts = EmptyCache
    /\ loginRateLimit = EmptyCache
    /\ login = [total |-> 0, ip |-> "none", run |-> [ip \in IPs |-> 0],
                at |-> [ip \in IPs |-> 0], status |-> [ip \in IPs |-> "none"]]

\* every image freshly generated (isPublic: false), no purchase, no order
Init ==
    /\ generatedImages = [i \in Images |-> NewImage]
    /\ posterPurchases = <<>>
    /\ orders = {}
    /\ users = [u \in Users |-> NewUser]
    /\ rowLock = [i \in Images |-> NoReq]
    /\ userLock = [u \in Users |-> NoReq]
    /\ buyer = [p \in Buyers |-> IdleBuyer]
    /\ publisher = [q \in Publishers |-> IdlePublisher]
    /\ editor = [e \in Editors |-> IdleEditor]
    /\ commits = <<>>
    /\ faults = 0
    /\ counted = [i \in Images |-> FALSE]
    /\ hist = <<>>
    /\ queryCache = EmptyCache
    /\ reader = [r \in Readers |-> IdleReader]
    /\ purchaseInvalidations = {}
    /\ now = 0
    /\ databaseHealthy = TRUE
    /\ consecutiveFailures = 0
    /\ lastCheckTime = 0
    /\ probing = {}
    /\ request = [j \in Requests |-> IdleRequest]
    /\ probeLog = <<>>
    /\ InitAux

\* the row a sequential publish by its non-exempt owner leaves behind
OnSale(ts) ==
    [isPublic |-> TRUE, isApproved |-> FALSE, soldCount |-> 0,
     totalSupply |-> ts, pricePerUnit |-> MinPrice]

PublishedCount(rows, u) ==
    Cardinality({i \in Images : Owner(i) = u /\ rows[i].isPublic})

\* the shop after the non-exempt seller has put image a1 on sale
InitOnSale ==
    /\ \E ts \in 1..MaxSupply :
          generatedImages = [i \in Images |-> IF i = "a1" THEN OnSale(ts) ELSE NewImage]
    /\ posterPurchases = <<>>
    /\ orders = {}
    /\ users = [u \in Users |->
                  [NewUser EXCEPT !.postersForSale = PublishedCount(generatedImages, u)]]
    /\ rowLock = [i \in Images |-> NoReq]
    /\ userLock = [u \in Users |-> NoReq]
    /\ buyer = [p \in Buyers |-> IdleBuyer]
    /\ publisher = [q \in Publishers |-> IdlePublisher]
    /\ editor = [e \in Editors |-> IdleEditor]
    /\ commits = <<>>
    /\ faults = 0
    /\ counted = [i \in Images |-> generatedImages[i].isPublic]
    /\ hist = <<>>
    /\ queryCache = EmptyCache
    /\ reader = [r \in Readers |-> IdleReader]
    /\ purchaseInvalidations = {}
    /\ now = 0
    /\ databaseHealthy = TRUE
    /\ consecutiveFailures = 0
    /\ lastCheckTime = 0
    /\ probing = {}
    /\ request = [j \in Requests |-> IdleRequest]
    /\ probeLog = <<>>
    /\ InitAux

\* a fresh shop, or one whose seller already has image a1 on sale
InitShop == Init \/ InitOnSale

\* every handler once over: a buyer, the seller, the admin, the webhook
Next ==
    \/ PurchaseStep(1, {"a1"})
    \/ PublishStep(1, {"u1"}, {"a1"}, Bodies) /\ UNCHANGED hist
    \/ EditionStep(1, {"a1"})
    \/ Approve("a1")
    \/ Reject("a1")
    \/ \E active \in BOOLEAN : SubscriptionChange("u1", active)

Spec == InitShop /\ [][Next]_vars

\* the quota tracker: concurrent publish requests of one seller, moderation,
\* subscription changes
NextQuota ==
    \/ \E q \in Publishers :
          PublishStep(q, {"u1"}, Images, {Body(1)}) /\ UNCHANGED hist
    \/ \E img \in Images : Reject(img)
    \/ \E active \in BOOLEAN : SubscriptionChange("u1", active)

SpecQuota == InitShop /\ [][NextQuota]_vars

\* one seller sending publish and unpublish requests one after the other; every
\* answered request is logged with what it left in the store
Logged(q) ==
    IF publisher'[q].pc = "done"
      THEN Append(hist, [img |-> publisher[q].img, isPublic |-> publisher[q].isPublic,
                         result |-> publisher'[q].result,
                         postersForSale |-> users'[publisher[q].email].postersForSale,
                         row |-> generatedImages'[publisher[q].img]])
      ELSE hist

NextSeq ==
    \/ /\ \E img \in Images, isPublic \in BOOLEAN :
             PublishStart(1, "u1", img, isPublic, 1, MinPrice)
       /\ Len(hist) < MaxHist
       /\ hist' = Logged(1)
    \/ (PublishRead(1) \/ PublishTxImage(1) \/ PublishTxUser(1) \/ PublishCommit(1))
          /\ hist' = Logged(1)
    \/ PublishAgain(1) /\ UNCHANGED hist

SpecSeq == Init /\ [][NextSeq]_vars

\* one seller toggling two images with concurrent requests, nothing else
NextToggle ==
    \E q \in Publishers :
        PublishStep(q, {"u1"}, {"a1", "a2"}, {Body(1)}) /\ UNCHANGED hist

SpecToggle == InitShop /\ [][NextToggle]_vars

\* cached reads of the image and the user while a purchase and a Stripe
\* subscription event go through
NextCache ==
    \/ PurchaseStep(1, {"a1"})
    \/ \E r \in Readers :
          CachedQueryStep(r, {ImageKey("a1"), UserKey("u1")}, {ImageTtl})
    \/ SubscriptionChange("u1", TRUE)
    \/ Tick

SpecCache == InitOnSale /\ [][NextCache]_vars

\* cachedQuery on its own: one caller's reads of an image that exists and of one
\* that does not, while the admin rewrites the row and time passes
NextRead ==
    \/ CachedQueryStep(1, {ImageKey("a1"), ImageKey(NoImage)}, {1, ImageTtl})
    \/ CachedQueryAgain(1)
    \/ EditionStep(1, {"a1"})
    \/ Tick

SpecRead == InitOnSale /\ [][NextRead]_vars

\* the order keys of the storage layer being cached and invalidated, by exact
\* key and by pattern
OrderKeys ==
    {OrderKey("1"), CatalogueOrderKey("1"), OrdersListKey, CatalogueOrdersListKey}

Patterns ==
    OrderKeys \cup {<<"order", ":", "*">>, <<"catalogue-", "*">>,
                    <<"*", "order", ":", "*">>, <<"*", ":", "list">>}

NextInvalidate ==
    \/ CachedQueryStep(1, OrderKeys, {ImageTtl})
    \/ CachedQueryAgain(1)
    \/ \E keyPattern \in Patterns : InvalidateCache(keyPattern)

SpecInvalidate == Init /\ [][NextInvalidate]_vars

\* the health state: the periodic probe, requests with their on-demand
\* probes, the clock
NextHealth ==
    \/ TimerProbe
    \/ \E o \in probing : ProbeSucceed(o)
    \/ \E o \in probing : ProbeFail(o)
    \/ \E j \in Requests, method \in {"GET", "POST"} : Arrive(j, method)
    \/ Tick

SpecHealth == Init /\ [][NextHealth]_vars

\* the breaker over time: the interval timer keeps firing and every SELECT 1
\* that was sent is answered or fails; one client keeps sending requests
NextRecover ==
    \/ TimerProbe
    \/ \E o \in probing : ProbeSucceed(o)
    \/ \E o \in probing : ProbeFail(o)
    \/ \E method \in {"GET", "POST"} : Arrive(1, method)
    \/ RequestAgain(1)
    \/ Tick

SpecRecover ==
    /\ Init /\ [][NextRecover]_vars
    /\ WF_vars(TimerProbe)
    /\ \A o \in {Timer} \cup Requests : WF_vars(ProbeSucceed(o) \/ ProbeFail(o))

\* every writer of the store beside the seller's counter: a purchase, a
\* publish or unpublish (by a seller who may be exempt), the admin's sold-count
\* update, approve and reject, and the subscription webhook
NextFrame ==
    \/ PurchaseStep(1, {"a1"})
    \/ PublishStep(1, {"u1"}, {"a1"}, {Body(1)}) /\ UNCHANGED hist
    \/ EditionStart(1, "a1", 1) \/ EditionUpdate(1)
    \/ Approve("a1")
    \/ Reject("a1")
    \/ \E active \in BOOLEAN : SubscriptionChange("u1", active)

SpecFrame == InitShop /\ [][NextFrame]_vars

\* executeWithRetry on its own, called with 1 to 3 attempts (3 is the default
\* and what every caller uses)
NextRetry ==
    \/ \E maxRetries \in 1..MaxRetries : ExecuteWithRetry(maxRetries)
    \/ QueryFulfilled
    \/ \E error \in Errors : QueryRejected(error)
    \/ BackoffOver
    \/ CallAgain

SpecRetry == Init /\ [][NextRetry]_vars

\* queryFn settles and the backoff timer fires
SpecRetryFair ==
    SpecRetry /\ WF_vars(QueryFulfilled \/ \E error \in Errors : QueryRejected(error))
              /\ WF_vars(BackoffOver)

\* withConnection called concurrently; the unit of work returns, or throws a
\* business or an infrastructure error
NextConnection ==
    \E c \in Calls :
        \/ WithConnection(c)
        \/ Connected(c)
        \/ \E error \in Errors : ConnectFailed(c, error)
        \/ OperationSettled(c, "returned", NoError)
        \/ \E error \in Errors : OperationSettled(c, "thrown", error)
        \/ ConnAgain(c)

SpecConnection == Init /\ [][NextConnection]_vars

\* one cached read after another missing the cache, the store answering or
\* failing
NextMiss ==
    \/ MissStart
    \/ SelectFulfilled
    \/ \E error \in Errors : SelectRejected(error)
    \/ InnerBackoffOver
    \/ OuterBackoffOver
    \/ MissAgain

SpecMiss == Init /\ [][NextMiss]_vars

\* image generations spending paid credits while credit purchases add some
NextCredits ==
    \/ \E k \in CreditOps :
          \/ CreditCall(k, "decrement", 0)
          \/ \E creditsToAdd \in 1..MaxAdd : CreditCall(k, "add", creditsToAdd)
          \/ CreditQuery(k)
          \/ CreditStore(k)
          \/ CreditUpdate(k)
          \/ CreditUpdateFails(k)
          \/ CreditBackoffOver(k)
          \/ CreditInvalidate(k)
          \/ CreditAgain(k)
    \/ Tick

SpecCredits == Init /\ [][NextCredits]_vars

\* login requests from two addresses while time passes
NextLogin ==
    \/ \E ip \in IPs, body \in {"valid", "wrong", "malformed"} : Login(ip, body)
    \/ Tick

SpecLogin == Init /\ [][NextLogin]_vars

\* the purchase engine alone: concurrent buyers, infrastructure failures
NextPurchase == \E p \in Buyers : PurchaseStep(p, {"a1", "a2"})

SpecPurchase == InitOnSale /\ [][NextPurchase]_vars

\* ------------------------------------------------------ purchase claims
PurchaseRows(img) ==
    {i \in 1..Len(posterPurchases) : posterPurchases[i].imageId = img}

EditionsOf(img) == {posterPurchases[i].editionNumber : i \in PurchaseRows(img)}

Attempts(img) == {p \in Buyers : buyer[p].img = img}

Succeeded(img) == {p \in Attempts(img) : buyer[p].result = "ok"}

AllBuyersDone == \A p \in Buyers : buyer[p].pc = "done"

NoPurchaseInFlight == \A p \in Buyers : buyer[p].pc \in {"idle", "done"}

BusinessRejections == {"SoldOut", "NotFound", "NotPublic"}

\* C1: no oversell.  Once every buyer has been answered and no failure was
\* injected, an image of supply N that received at least 2N attempts has exactly
\* N successful purchases, N purchase rows carrying the editions 1..N, and
\* every other attempt was answered "sold out".
C1_NoOversell ==
    (AllBuyersDone /\ faults = 0) =>
        \A img \in Images :
            LET n == generatedImages[img].totalSupply IN
            (generatedImages[img].isPublic /\ Cardinality(Attempts(img)) >= 2 * n) =>
                /\ Cardinality(Succeeded(img)) = n
                /\ Cardinality(PurchaseRows(img)) = n
                /\ EditionsOf(img) = 1..n
                /\ \A p \in Attempts(img) \ Succeeded(img) : buyer[p].result = "SoldOut"

\* C2: no duplicate or missing editions.  Whenever no purchase is in flight,
\* the purchase rows of every image carry exactly the editions 1..soldCount,
\* one row per edition.
C2_EditionsExact ==
    NoPurchaseInFlight =>
        \A img \in Images :
            /\ EditionsOf(img) = 1..generatedImages[img].soldCount
            /\ Cardinality(PurchaseRows(img)) = generatedImages[img].soldCount

\* C4: purchase atomicity.  A purchase whose transaction was rolled back has
\* left no purchase row and no order behind.
C4_PurchaseAtomic ==
    \A p \in Buyers :
        buyer[p].tx = "rolledback" =>
            /\ \A i \in 1..Len(posterPurchases) : posterPurchases[i].userEmail # p
            /\ \A o \in orders : o.email # p

CommitsOf(img) == SelectSeq(commits, LAMBDA c : c.imageId = img)

SameSoldCount(p, q) ==
    /\ p # q
    /\ buyer[p].img = buyer[q].img
    /\ buyer[p].editionNumber > 0
    /\ buyer[p].editionNumber = buyer[q].editionNumber

\* C6: two transactions that observed the same soldCount are never both
\* given the edition, and the loser is re-run: it ends with a purchase, with
\* "sold out" on the re-read, or with Conflict once its attempts are used up.
C6_ConflictRetried ==
    \A p, q \in Buyers :
        (SameSoldCount(p, q) /\ faults = 0
            /\ buyer[p].pc = "done" /\ buyer[q].pc = "done") =>
            /\ ~(buyer[p].result = "ok" /\ buyer[q].result = "ok")
            /\ buyer[p].result \in {"ok", "SoldOut", "Conflict"}

\* C7: a purchase rejected by a business rule (sold out, image not found,
\* image not published) has written no purchase row and no order, holds no
\* lock and no open transaction, and the step that rejects it changes no
\* table (soldCount included).
C7_RejectionWritesNothing ==
    /\ [](\A p \in Buyers :
            buyer[p].result \in BusinessRejections =>
                /\ buyer[p].pc = "done" /\ buyer[p].tx = "rolledback"
                /\ \A i \in 1..Len(posterPurchases) : posterPurchases[i].userEmail # p
                /\ \A o \in orders : o.email # p
                /\ \A img \in Images : rowLock[img] # BuyerReq(p))
    /\ [][\A p \in Buyers :
            (buyer[p].result = "none" /\ buyer'[p].result \in BusinessRejections)
                => UNCHANGED dbVars]_vars

\* C7 witness: one buyer was turned away from a sold-out image, one from an
\* unpublished image and one asked for an image that does not exist.
C7_Witness ==
    /\ \E p \in Buyers :
          /\ buyer[p].result = "SoldOut"
          /\ generatedImages[buyer[p].img].soldCount
                = generatedImages[buyer[p].img].totalSupply
    /\ \E p \in Buyers : buyer[p].result = "NotPublic"
    /\ \E p \in Buyers : buyer[p].result = "NotFound"

\* ------------------------------------------------ supply and quota claims
NoPublishInFlight == \A q \in Publishers : publisher[q].pc \in {"idle", "done"}

\* C3: the sold count of an image never exceeds its total supply.
C3_SoldWithinSupply ==
    \A img \in Images :
        generatedImages[img].soldCount <= EffectiveSupply(generatedImages[img])

\* C8: quota conservation.  Whenever no publish request is in flight, the
\* postersForSale counter of a non-exempt seller is the number of that seller's
\* published images that were published while the seller was not exempt.
C8_QuotaConservation ==
    NoPublishInFlight =>
        \A u \in Users :
            ~IsSubscribed(users[u]) =>
                users[u].postersForSale =
                    Cardinality({i \in Images : /\ Owner(i) = u
                                                 /\ generatedImages[i].isPublic
                                                 /\ counted[i]})

\* C9: the counter of a non-exempt seller never exceeds the quota of 2.
C9_QuotaNeverExceeded ==
    \A u \in Users : ~IsSubscribed(users[u]) => users[u].postersForSale <= FreeQuota

\* the first n logged requests are publishes (pub = TRUE) or unpublishes
Is(k, img, pub) == hist[k].img = img /\ hist[k].isPublic = pub

\* C10: the sequential quota scenario.  For three distinct images a, b, c of
\* a non-exempt seller: publishing a and b succeeds and leaves the counter at
\* 1 and then 2; publishing c is then refused with QuotaExceeded and leaves c
\* and the counter as they were; unpublishing a brings the counter to 1; and
\* publishing c then succeeds and brings it back to 2.
C10_Scenario ==
    \A a, b, c \in Images :
        (a # b /\ a # c /\ b # c) =>
            /\ (Len(hist) >= 1 /\ Is(1, a, TRUE)) =>
                  hist[1].result = "ok" /\ hist[1].postersForSale = 1
            /\ (Len(hist) >= 2 /\ Is(1, a, TRUE) /\ Is(2, b, TRUE)) =>
                  hist[2].result = "ok" /\ hist[2].postersForSale = 2
            /\ (Len(hist) >= 3 /\ Is(1, a, TRUE) /\ Is(2, b, TRUE) /\ Is(3, c, TRUE)) =>
                  /\ hist[3].result = "QuotaExceeded"
                  /\ hist[3].postersForSale = 2
                  /\ hist[3].row = NewImage
            /\ (Len(hist) >= 4 /\ Is(1, a, TRUE) /\ Is(2, b, TRUE) /\ Is(3, c, TRUE)
                    /\ Is(4, a, FALSE)) =>
                  /\ hist[4].result = "ok"
                  /\ hist[4].postersForSale = 1
                  /\ ~hist[4].row.isPublic
            /\ (Len(hist) >= 5 /\ Is(1, a, TRUE) /\ Is(2, b, TRUE) /\ Is(3, c, TRUE)
                    /\ Is(4, a, FALSE) /\ Is(5, c, TRUE)) =>
                  /\ hist[5].result = "ok"
                  /\ hist[5].postersForSale = 2
                  /\ hist[5].row.isPublic

\* C10 witness: the whole scenario has run, on a1, a2 and a3.
C10_Witness ==
    /\ Len(hist) = 5
    /\ Is(1, "a1", TRUE) /\ Is(2, "a2", TRUE) /\ Is(3, "a3", TRUE)
    /\ Is(4, "a1", FALSE) /\ Is(5, "a3", TRUE)
    /\ users["u1"].postersForSale = 2
    /\ generatedImages["a3"].isPublic /\ ~generatedImages["a1"].isPublic

\* --------------------------------------------- counter and supply frames
\* C11: the counter of a seller changes only in a step in which the published
\* flag of one of that seller's images actually changes, and then by exactly
\* one; so a request that sets isPublic to the value it already has, and the
\* second of two concurrent publishes (or unpublishes) of one image, leave the
\* counter alone.
C11_CounterFollowsFlag ==
    [][\A u \in Users :
          users'[u].postersForSale # users[u].postersForSale =>
              \E img \in Images :
                  /\ Owner(img) = u
                  /\ generatedImages'[img].isPublic # generatedImages[img].isPublic
                  /\ users'[u].postersForSale =
                        IF generatedImages'[img].isPublic
                          THEN users[u].postersForSale + 1
                          ELSE users[u].postersForSale - 1]_vars

\* C12: a step changes postersForSale of a seller only if it is the commit of
\* a publish or unpublish request of that seller, authenticated as not exempt;
\* purchase, approve, reject and sold-count steps, and the requests of an exempt
\* seller, leave every counter unchanged.
C12_CounterFrame ==
    [][\A u \in Users :
          users'[u].postersForSale # users[u].postersForSale =>
              \E q \in Publishers :
                  /\ publisher[q].pc = "commit" /\ publisher'[q].pc = "done"
                  /\ publisher[q].email = u
                  /\ ~IsSubscribed(publisher[q].user)
                  /\ buyer' = buyer /\ editor' = editor
                  /\ \A v \in Users \ {u} : users'[v] = users[v]]_vars

\* C12 witness: an exempt seller has published an image, a purchase and a
\* sold-count update have gone through, and the counter is still 0.
C12_Witness ==
    /\ IsSubscribed(users["u1"])
    /\ publisher[1].result = "ok"
    /\ generatedImages["a1"].isPublic
    /\ users["u1"].postersForSale = 0
    /\ buyer[1].tx = "committed"
    /\ editor[1].result = "ok"

\* C13: immutability under sale.  No step changes totalSupply or pricePerUnit
\* of an image whose soldCount is above 0, published or not.
C13_ImmutableUnderSale ==
    [][\A img \in Images :
          generatedImages[img].soldCount > 0 =>
              /\ generatedImages'[img].totalSupply = generatedImages[img].totalSupply
              /\ generatedImages'[img].pricePerUnit = generatedImages[img].pricePerUnit]_vars

\* ---------------------------------------------------------- cache claims
\* C14: an availability read made through the cache when the store already
\* holds the soldCount of a committed purchase reports at least that soldCount
\* (and so no more than the remaining supply the store had at the call).
C14_AvailabilityFresh ==
    \A r \in Readers :
        (reader[r].pc = "done" /\ ~reader[r].error
            /\ reader[r].key = ImageKey("a1")) =>
            /\ reader[r].result.defined
            /\ reader[r].result.v.soldCount >= reader[r].seen.v.soldCount
            /\ Availability(reader[r].result).remainingSupply
                   <= Availability(reader[r].seen).remainingSupply

InvalidatedBy(p) == {e.key : e \in {x \in purchaseInvalidations : x.by = p}}

\* C15: every invalidateCache call of a purchase request is made after the
\* request's transaction has committed (never while it is open, never for one
\* that rolls back), and a committed purchase has invalidated the image's
\* detail key (which also serves availability) and its purchase-list key.
C15_InvalidatedAfterCommit ==
    /\ \A e \in purchaseInvalidations : e.committed
    /\ \A p \in Buyers :
          buyer[p].tx = "committed" =>
              {ImageKey(buyer[p].img), PurchasesKey(buyer[p].img)} \subseteq InvalidatedBy(p)

\* C16: a cachedQuery of the user's key that is called when the subscription
\* update has been written and its invalidateCache has run never returns the
\* user as it was before the update.
C16_NoStaleAfterInvalidate ==
    \A r \in Readers :
        (reader[r].pc = "done" /\ ~reader[r].error
            /\ reader[r].key = UserKey("u1")
            /\ IsSubscribed(reader[r].seen.v)) =>
            IsSubscribed(reader[r].result.v)

\* C17: the contract of cachedQuery.  A call that finds an unexpired entry for
\* its key returns the stored value at once, without invoking the producer and
\* without touching the cache; any other call invokes the producer (at most
\* maxRetries times), and when the producer has answered stores the answer
\* under the key with the given TTL and returns it; a call that fails stores
\* nothing.
C17_CachedQueryContract ==
    [][\A r \in Readers :
          /\ (reader[r].pc = "idle" /\ reader'[r].pc # "idle") =>
                LET key == reader'[r].key IN
                IF Live(queryCache, key)
                  THEN /\ reader'[r].pc = "done" /\ reader'[r].hit
                       /\ reader'[r].result = queryCache[key].value
                       /\ queryCache' = queryCache
                  ELSE reader'[r].pc = "produce" /\ queryCache' = queryCache
          /\ (reader[r].pc = "store" /\ reader'[r].pc = "done") =>
                /\ reader[r].attempt <= MaxRetries
                /\ reader'[r].result = reader[r].fetched
                /\ queryCache' = CacheSet(queryCache, reader[r].key,
                                          reader[r].fetched, reader[r].ttl)
          /\ (~reader[r].error /\ reader'[r].error) => queryCache' = queryCache]_vars

\* a key matches a pattern when the pattern, each '*' standing for any run of
\* characters, spells the whole key
RECURSIVE GlobMatch(_, _)
GlobMatch(pattern, key) ==
    IF pattern = <<>> THEN key = <<>>
    ELSE IF Head(pattern) = "*"
      THEN GlobMatch(Tail(pattern), key)
             \/ (key # <<>> /\ GlobMatch(pattern, Tail(key)))
    ELSE key # <<>> /\ Head(pattern) = Head(key)
           /\ GlobMatch(Tail(pattern), Tail(key))

Selected(keyPattern, key) ==
    IF HasStar(keyPattern) THEN GlobMatch(keyPattern, key) ELSE key = keyPattern

\* C18: whatever the cache holds, invalidateCache with an exact key removes
\* that entry and with a pattern removes exactly the entries whose key matches
\* it; every other entry stays as it was.
C18_InvalidateFrame ==
    \A keyPattern \in Patterns :
        LET after == Invalidated(queryCache, keyPattern) IN
        /\ DOMAIN after = {k \in DOMAIN queryCache : ~Selected(keyPattern, k)}
        /\ \A k \in DOMAIN after : after[k] = queryCache[k]

\* --------------------------------------------------------- health claims
\* C19: the state is unhealthy only while consecutiveFailures >= 3 and the
\* three latest completed probes all failed; a probe that succeeds leaves the
\* state healthy with consecutiveFailures = 0, whatever other probes are
\* outstanding.
C19_HealthThreshold ==
    /\ [](~databaseHealthy =>
            /\ consecutiveFailures >= 3
            /\ Len(probeLog) = 3
            /\ \A i \in 1..3 : ~probeLog[i])
    /\ [][(probing' # probing /\ probeLog' # <<>> /\ probeLog'[Len(probeLog')])
            => (databaseHealthy' /\ consecutiveFailures' = 0)]_vars

\* C19 witness: the state is unhealthy while the periodic probe and the
\* on-demand probe of a request are both outstanding.
C19_Witness ==
    /\ ~databaseHealthy
    /\ Timer \in probing
    /\ \E j \in Requests : j \in probing

\* C20: a GET request never runs a probe and is always passed on; a finished
\* non-GET request that met the unhealthy state was passed on exactly when it
\* ran an on-demand probe and that probe succeeded, and was answered 503
\* otherwise.
C20_ReadsNeverBlocked ==
    \A j \in Requests :
        /\ request[j].method = "GET" =>
              /\ request[j].pc = "done" /\ request[j].outcome = "next"
              /\ ~request[j].probed /\ j \notin probing
        /\ (request[j].pc = "done" /\ request[j].method = "POST"
                /\ request[j].unhealthy) =>
              request[j].outcome =
                  IF request[j].probed /\ request[j].probeOk THEN "next" ELSE "503"

\* C20 witness: in the unhealthy state a GET was passed on, and a POST was
\* passed on after its own probe succeeded.
C20_Witness ==
    /\ \E j \in Requests :
          request[j].method = "GET" /\ request[j].unhealthy
              /\ request[j].outcome = "next"
    /\ \E j \in Requests :
          request[j].method = "POST" /\ request[j].unhealthy
              /\ request[j].probeOk /\ request[j].outcome = "next"

\* a write-class request passes the middleware in this step
Arrives(j) ==
    request[j].pc = "idle" /\ request'[j].pc # "idle" /\ request'[j].method = "POST"

\* the last completed probe is older than the probe interval
LastProbeStale == now - lastCheckTime > CheckInterval

\* a finished write that met the unhealthy state and ran a probe was admitted
\* exactly when that probe succeeded
AdmittedIffProbeOk ==
    \A j \in Requests :
        (request[j].pc = "done" /\ request[j].method = "POST"
            /\ request[j].unhealthy /\ request[j].probed) =>
            (request[j].outcome = "next" <=> request[j].probeOk)

\* C21 as stated: every write-class request that arrives when the last probe
\* is older than the interval starts an on-demand probe; one that arrives
\* within the interval is decided at once on the cached health state, without
\* a probe; while unhealthy the probing request is admitted exactly when its
\* probe succeeds.
C21_WriteProbesWhenStale ==
    /\ [][\A j \in Requests : Arrives(j) =>
            IF LastProbeStale
              THEN j \in probing' /\ request'[j].probed
              ELSE /\ j \notin probing' /\ ~request'[j].probed
                   /\ request'[j].outcome = IF databaseHealthy THEN "next" ELSE "503"]_vars
    /\ []AdmittedIffProbeOk

\* C21 amended: a write-class request that meets the unhealthy state starts an
\* on-demand probe when the last probe is older than the interval and is then
\* admitted exactly when that probe succeeds; within the interval it is
\* refused on the cached state without a probe; a write that meets the healthy
\* state is admitted without a probe, whatever the age of the last probe.
C21_UnhealthyWriteProbesWhenStale ==
    /\ [][\A j \in Requests : Arrives(j) =>
            IF ~databaseHealthy /\ LastProbeStale
              THEN j \in probing' /\ request'[j].probed /\ request'[j].pc = "probing"
              ELSE /\ j \notin probing' /\ ~request'[j].probed
                   /\ request'[j].pc = "done"
                   /\ request'[j].outcome = IF databaseHealthy THEN "next" ELSE "503"]_vars
    /\ []AdmittedIffProbeOk

\* C21 witness: in the unhealthy state one write arrived within the interval
\* and was refused without a probe, and a later one ran a probe that succeeded
\* and was admitted.
C21_Witness ==
    \E i, j \in Requests :
        /\ request[i].method = "POST" /\ request[i].unhealthy
        /\ ~request[i].probed /\ request[i].outcome = "503"
        /\ request[j].method = "POST" /\ request[j].unhealthy
        /\ request[j].probed /\ request[j].probeOk /\ request[j].outcome = "next"

\* -------------------------------------------------------- executor claims
Transient(entry) == ~entry.ok /\ IsConnectionError(entry.error)

Terminal(entry) == ~entry.ok /\ ~IsConnectionError(entry.error)

\* C22: a finished executeWithRetry call has invoked queryFn at most maxRetries
\* times; only the last invocation can have succeeded or failed terminally
\* (there is no attempt after either); if it succeeded the call returned its
\* result, if it failed terminally the call threw that very error, and if all
\* maxRetries invocations failed transiently the call threw the last of their
\* errors; and every call that is started finishes.
C22_RetryContract ==
    /\ [](/\ Len(call.log) <= call.maxRetries
          /\ \A k \in 1..(Len(call.log) - 1) : Transient(call.log[k])
          /\ call.pc = "done" =>
                LET n == Len(call.log)
                    last == call.log[n]
                IN /\ n >= 1
                   /\ last.ok => call.outcome = "returned" /\ call.value = ResultOf(n)
                   /\ Terminal(last) => call.outcome = "thrown" /\ call.thrown = last.error
                   /\ Transient(last) =>
                         /\ n = call.maxRetries
                         /\ call.outcome = "thrown" /\ call.thrown = last.error)
    /\ (call.pc = "invoke" ~> call.pc = "done")

\* C22 witness: a call with three attempts has thrown after three transient
\* failures with different errors.
C22_Witness ==
    /\ call.pc = "done" /\ call.maxRetries = 3 /\ Len(call.log) = 3
    /\ call.outcome = "thrown"
    /\ call.log[1].error # call.log[3].error
    /\ call.thrown = call.log[3].error

\* C23: a withConnection call checks out one client, holds exactly that one
\* while the unit of work runs, and has released it exactly once when it is
\* over, whether the unit of work returned, threw a business error or threw an
\* infrastructure error (a call whose pool.connect() failed never held one); so
\* when every call is over no client is checked out.
C23_LeaseReleased ==
    \A c \in Calls :
        /\ conn[c].leases <= 1 /\ conn[c].releases <= conn[c].leases
        /\ leased[c] = conn[c].leases - conn[c].releases
        /\ conn[c].pc = "operation" => leased[c] = 1
        /\ conn[c].pc \in {"idle", "connect", "done"} =>
              /\ leased[c] = 0
              /\ conn[c].releases = conn[c].leases
        /\ (\A d \in Calls : conn[d].pc \in {"idle", "done"}) => CheckedOut = 0

\* C23 witness: one call is over after its unit of work threw a business
\* error, another after an infrastructure error, and nothing is checked out.
C23_Witness ==
    /\ \A c \in Calls : conn[c].pc = "done" /\ conn[c].outcome = "thrown"
                           /\ conn[c].releases = 1
    /\ \E c \in Calls : IsConnectionError(conn[c].error)
    /\ \E c \in Calls : ~IsConnectionError(conn[c].error)
    /\ CheckedOut = 0

\* ------------------------------------------- order and response claims
\* C24: an order row exists only for a purchase whose transaction has
\* committed; a failure while the order is being created does not roll the
\* transaction back; and a purchase whose soldCount update was rolled back has
\* left neither an order nor a purchase row.
C24_OrderAfterCommit ==
    /\ [](\A o \in orders : buyer[o.email].tx = "committed")
    /\ [][\A p \in Buyers :
            buyer[p].pc = "order" => buyer'[p].tx # "rolledback"]_vars
    /\ [](\A p \in Buyers :
            (buyer[p].tx = "rolledback" /\ buyer[p].editionNumber > 0) =>
                /\ \A o \in orders : o.email # p
                /\ \A i \in PurchaseRows(buyer[p].img) :
                      posterPurchases[i].userEmail # p)

\* C25: whenever the success response with edition e has been sent, the
\* transaction has committed and the store holds soldCount >= e and the
\* purchase row with edition e; and a transaction that does not commit has sent
\* no success response.
C25_SuccessOnlyAfterCommit ==
    \A p \in Buyers :
        /\ buyer[p].result = "ok" =>
              /\ buyer[p].tx = "committed"
              /\ generatedImages[buyer[p].img].soldCount >= buyer[p].editionNumber
              /\ \E i \in PurchaseRows(buyer[p].img) :
                    /\ posterPurchases[i].editionNumber = buyer[p].editionNumber
                    /\ posterPurchases[i].userEmail = p
        /\ buyer[p].tx = "rolledback" => buyer[p].result # "ok"

\* ------------------------------------------------------ breaker over time
\* a probe fails in this step
ProbeFails == consecutiveFailures' > consecutiveFailures

\* C26: unless probes keep failing for ever, the state eventually becomes
\* healthy and stays healthy; and a write is refused only by a step taken in
\* the unhealthy state or by the failure of its own probe, so that none is
\* refused once the state is healthy and the probes succeed.
C26_RecoveryLive ==
    /\ ([]<><<ProbeFails>>_vars \/ <>[]databaseHealthy)
    /\ [][(\E j \in Requests :
              request'[j].outcome = "503" /\ request[j].outcome # "503")
            => (~databaseHealthy \/ ProbeFails)]_vars

\* C26 witness: the state is healthy again, with no failure counted, after a
\* write was refused in the unhealthy state.
C26_Witness ==
    /\ databaseHealthy /\ consecutiveFailures = 0
    /\ request[1].method = "POST" /\ request[1].unhealthy
    /\ request[1].outcome = "503"

\* C27: a request has at no time both been passed on and been answered 503,
\* nor either of them twice; a request the middleware is done with has exactly
\* one of the two; and a request waiting for its on-demand probe gets its one
\* outcome when the probe is over, however it ends.
C27_OneOutcome ==
    /\ [](\A j \in Requests :
            /\ request[j].nextCalls + request[j].responses <= 1
            /\ request[j].pc = "done" =>
                  request[j].nextCalls + request[j].responses = 1
            /\ request[j].pc \in {"idle", "probing"} =>
                  request[j].nextCalls + request[j].responses = 0)
    /\ \A j \in Requests : request[j].pc = "probing" ~> request[j].pc = "done"

\* C27 witness: a write whose on-demand probe failed has its 503 and nothing
\* else.
C27_Witness ==
    /\ request[1].pc = "done" /\ request[1].probed /\ ~request[1].probeOk
    /\ request[1].responses = 1 /\ request[1].nextCalls = 0

\* C28: a cached read that misses runs its database query at most
\* maxAttempts = 3 times before it returns or surfaces the error.
C28_AtMostThreeQueries == miss.queries <= MaxRetries

\* ---------------------------------------------------------- credit claims
CreditsQuiet == \A k \in CreditOps : creditOp[k].pc \in {"idle", "done"}

\* C29: paidCredits is never negative; a decrementPaidCredits call writes only
\* when the store holds paidCredits >= 1 (with less it returns false and
\* changes nothing); and whenever no call is in progress paidCredits is its
\* initial value (0) minus the number of decrements that returned true plus
\* the credits added by the addPaidCredits calls that returned true.
C29_CreditsExact ==
    /\ [](paidCredits >= 0)
    /\ [][\A k \in CreditOps :
            (creditOp[k].kind = "decrement" /\ creditOp[k].pc = "update"
                /\ creditOp'[k].pc = "invalidate") => paidCredits >= 1]_vars
    /\ [](CreditsQuiet =>
            paidCredits = 0 - creditLog.decrements + creditLog.added)

\* ----------------------------------------------------------- login claims
\* five requests of ip were answered 401 with no 200 in between, and the ten
\* minutes since the fifth are not over
LockoutDue(ip) ==
    login.run[ip] >= MaxFailedAttempts /\ DateNow <= login.at[ip] + LockoutDuration

\* C30: after five failed logins from one address with no successful login in
\* between, and until ten minutes have passed, isIpLockedOut is true for the
\* address and every login request from it is refused (403, or 429 by the
\* rate limit); and after a successful login the address has no failed
\* attempt on record.
C30_Lockout ==
    /\ [](\A ip \in IPs : LockoutDue(ip) => IsIpLockedOut(failedAttempts, ip))
    /\ [][\A ip \in IPs :
            (LockoutDue(ip) /\ login'.total # login.total /\ login'.ip = ip)
                => login'.status[ip] \in {"403", "429"}]_vars
    /\ [](\A ip \in IPs : login.status[ip] = "200" => ip \notin DOMAIN failedAttempts)

====
